---- MODULE Spec2Model ----
(***************************************************************************)
(* OAuth 2.1 authorization server of the StratoForce MCP server            *)
(* (src/oauth.js): the three in-memory stores, the expiry sweeper, the     *)
(* authorize / callback / token handlers and the Bearer middleware.        *)
(*                                                                         *)
(* Node runs each handler on one thread: a handler runs without            *)
(* interruption up to its next await on I/O (the upstream fetch, the       *)
(* WebCrypto signature), so every action below is one such segment.        *)
(* The clock is Date.now() in whole seconds.                               *)
(***************************************************************************)
EXTENDS Integers, FiniteSets, Sequences, Bags, TLC

\* ------------------------------------------------------------------ bounds
ClockStep == 200
MaxTime == 1000
MaxBearerTime == 4000
MaxTimedFlows == 1
MaxAuthorize == 2
MaxCodes == 2
MaxRefresh == 2
MaxInflight == 2
MaxRenewals == 2
MaxSessions == 2
\* The clock of SpecSweep: 30 days and two sweep periods, in seconds.
MaxSweepTime == 2593200
\* The clock of SpecLate: two sweep periods, in seconds.
MaxLateTime == 1200

\* --------------------------------------------------------------- constants
tokenExpirySeconds == 3600
refreshExpirySeconds == 86400 * 30
RequestTTL == 600000 \div 1000
SweepPeriod == 600000 \div 1000
issuer == "https://mcp.stratoforce.ai"
sfAuthorizeUrl == "https://login.salesforce.com/services/oauth2/authorize"
TokenScope == "mcp:read mcp:write"

\* An absent (undefined) request parameter.  Where the code only tests a
\* parameter for truthiness, the empty string behaves as the absent one and
\* is not drawn separately.
Absent == ""
\* The state parameter given with the empty string as its value ("state="):
\* a string, falsy like the absent parameter.
EmptyState == "(empty string)"
\* An absent key parameter (keys are numbered 1, 2, ...).
NoKey == 0
\* The mcp-session-id values that name a member of Object.prototype
\* ("constructor", "toString", "__proto__", ...), as one key that is never
\* generated.
PrototypeKeys == {-1}

\* ------------------------------------------------------------ input domains
Verifiers == {"v1", "v2"}
StateKeys == 1..MaxAuthorize
CodeKeys == 1..MaxCodes
RefreshKeys == 1..MaxRefresh

VARIABLES now, nextSweep, authRequests, authCodes, refreshTokens,
          nState, nCode, nRefresh, inflight, resp,
          hitCount, requested, minted, issuedSub, okCount, renewals, lastBearer,
          API_KEY, transports, nSession

vars == <<now, nextSweep, authRequests, authCodes, refreshTokens,
          nState, nCode, nRefresh, inflight, resp,
          hitCount, requested, minted, issuedSub, okCount, renewals, lastBearer,
          API_KEY, transports, nSession>>

\* The HTTP front of src/server.js: the configured API key and the registry
\* of MCP sessions.  The handlers of src/oauth.js never read or write these.
mcp == <<API_KEY, transports, nSession>>

stores == <<authRequests, authCodes, refreshTokens>>
\* History kept for the properties only: how often a callback found the
\* pending request of a state, what the authorize request of each state asked
\* to be recorded, the state and the challenge each code was
\* minted with, how often a code was redeemed with success, how many refresh
\* exchanges succeeded (counted up to MaxRenewals), one earlier answer of
\* the Bearer middleware, and the subject of the access token each refresh
\* token was handed out with.
ghosts == <<hitCount, requested, minted, issuedSub, okCount, renewals,
            lastBearer>>

\* ------------------------------------------------------------- Map helpers
EmptyMap == [k \in {} |-> 0]
MapSet(m, k, v) == [x \in DOMAIN m \cup {k} |-> IF x = k THEN v ELSE m[x]]
MapDelete(m, k) == [x \in DOMAIN m \ {k} |-> m[x]]
MapHas(m, k) == k \in DOMAIN m

Min(a, b) == IF a < b THEN a ELSE b

\* ------------------------------------------------------- Credential codec
\* base64url(SHA-256(verifier)): a fixed injective map on the verifiers used.
S256(verifier) ==
    CASE verifier = "v1" -> "h1"
      [] verifier = "v2" -> "h2"
      [] OTHER -> "h(" \o verifier \o ")"

\* Mutant: the comparison with the stored challenge is left out.
verifyCodeChallengeAny(verifier, challenge) == S256(verifier) = S256(verifier)

\* Lines 69-72.
verifyCodeChallenge(verifier, challenge) == S256(verifier) = challenge

\* Mutant: the token lives for a day.
createJWTDay(payload, clock) ==
    [sub |-> payload.sub, instance_url |-> payload.instance_url,
     sf_token |-> payload.sf_token, scope |-> payload.scope,
     iat |-> clock, iss |-> issuer, exp |-> clock + 86400,
     sig |-> "jwtSecret"]

\* SignJWT(payload).setIssuedAt().setIssuer(issuer).setExpirationTime("3600s"):
\* iat and exp are taken from the clock when the builder runs; sig names the
\* key the HS256 signature was made with.
createJWT(payload, clock) ==
    [sub |-> payload.sub, instance_url |-> payload.instance_url,
     sf_token |-> payload.sf_token, scope |-> payload.scope,
     iat |-> clock, iss |-> issuer, exp |-> clock + tokenExpirySeconds,
     sig |-> "jwtSecret"]

\* Mutant: a token is still accepted at the instant of its expiry.
verifyJWTInclusive(token, clock) ==
    /\ token.sig = "jwtSecret"
    /\ token.iss = issuer
    /\ ~(token.exp < clock)

\* jwtVerify(token, secret, {issuer}): the signature must be made with our
\* secret, iss must equal the issuer, and the token is expired when
\* exp <= now (jose, no clock tolerance).  TRUE when it returns the payload,
\* FALSE when it throws.
verifyJWT(token, clock) ==
    /\ token.sig = "jwtSecret"
    /\ token.iss = issuer
    /\ ~(token.exp <= clock)

\* new URL(u) throws on a string that is no absolute URL.
IsUrl(u) == u \notin {Absent, "not a url"}

\* sfTokens.id?.split('/')[4] || 'unknown'; id is modelled as the list of its
\* '/'-separated pieces (TLA+ sequences count from 1).
OrgIdOf(id) ==
    IF Len(id) >= 5 /\ id[5] # "" THEN id[5] ELSE "unknown"

\* ------------------------------------------------------- upstream provider
SfId(org) == <<"https:", "", "login.salesforce.com", "id", org, "005u">>

\* The JSON bodies the upstream token endpoint answers a code exchange with.
SfTokenResponses ==
    { [access_token |-> "sfA1", refresh_token |-> "sfR1",
       instance_url |-> "instA", id |-> SfId("orgA")],
      [access_token |-> "sfA2", refresh_token |-> Absent,
       instance_url |-> "instB", id |-> <<>>] }

\* The JSON bodies the upstream token endpoint answers a refresh with.
SfRefreshResponses ==
    { [access_token |-> "sfA3", instance_url |-> Absent],
      [access_token |-> "sfA4", instance_url |-> "instC"] }

\* Bodies of a non-2xx answer of the upstream token endpoint.
SfErrors == {"invalid_grant: expired", "invalid_client"}

\* The messages of the errors the try block of handleCallback can throw on
\* an upstream failure: the Error made of a non-2xx answer (line 185), and
\* the TypeError of a fetch that could not reach the upstream.
ExchangeFailures ==
    {"Salesforce token exchange failed: " \o e : e \in SfErrors}
    \cup {"fetch failed"}

\* -------------------------------------------------------------- responses
NoResp == [op |-> "none"]
Json(op, status, error, req) ==
    [op |-> op, status |-> status, error |-> error, req |-> req]

\* ------------------------------------------------------------------- Init
Init ==
    /\ now = 0
    /\ nextSweep = SweepPeriod
    /\ authRequests = EmptyMap
    /\ authCodes = EmptyMap
    /\ refreshTokens = EmptyMap
    /\ nState = 0
    /\ nCode = 0
    /\ nRefresh = 0
    /\ inflight = EmptyBag
    /\ resp = NoResp
    /\ hitCount = [s \in StateKeys |-> 0]
    /\ requested = EmptyMap
    /\ minted = EmptyMap
    /\ issuedSub = EmptyMap
    /\ okCount = [c \in CodeKeys |-> 0]
    /\ renewals = 0
    /\ lastBearer = NoResp
    \* STRATOFORCE_API_KEY is not set
    /\ API_KEY = Absent
    /\ transports = EmptyMap
    /\ nSession = 0

InflightOf(op) == {c \in BagToSet(inflight) : c.op = op}
\* The number of suspended handlers among the kinds S, copies counted.
Copies(S) ==
    LET RECURSIVE Sum(_)
        Sum(T) == IF T = {} THEN 0
                  ELSE LET x == CHOOSE x \in T : TRUE
                       IN CopiesIn(x, inflight) + Sum(T \ {x})
    IN Sum(S)
CountOf(op) == Copies(InflightOf(op))
Suspend(c) == inflight' = inflight (+) SetToBag({c})
Resume(c) == inflight (-) SetToBag({c})

\* -------------------------------------------------------------- the clock
\* Time passes; a due sweeper timer fires before the clock moves on.
TickUpTo(limit) ==
    /\ now < limit
    /\ now < nextSweep
    /\ now' = Min(now + ClockStep, nextSweep)
    /\ resp' = NoResp
    /\ lastBearer' = NoResp
    /\ UNCHANGED <<mcp, nextSweep, stores, nState, nCode, nRefresh, inflight,
                   hitCount, requested, minted, issuedSub, okCount, renewals>>

Tick == TickUpTo(MaxTime)

\* No request arrives before the sweeper timer is due.
TickToSweep ==
    /\ now < MaxSweepTime
    /\ now < nextSweep
    /\ now' = nextSweep
    /\ resp' = NoResp
    /\ lastBearer' = NoResp
    /\ UNCHANGED <<mcp, nextSweep, stores, nState, nCode, nRefresh, inflight,
                   hitCount, requested, minted, issuedSub, okCount, renewals>>

\* ------------------------------------------------------------ the sweeper
\* Mutant: an entry is deleted one sweep period late.
SweepMapLate(m, ttl) ==
    [k \in {x \in DOMAIN m : ~(now - m[x].createdAt > ttl + SweepPeriod)}
       |-> m[k]]

\* Mutant: an entry is deleted as soon as its age reaches the TTL.
SweepMapAtTtl(m, ttl) ==
    [k \in {x \in DOMAIN m : ~(now - m[x].createdAt >= ttl)} |-> m[k]]

\* Lines 54-56: the entries of a store that a sweep at the instant now keeps.
SweepMap(m, ttl) == [k \in {x \in DOMAIN m : ~(now - m[x].createdAt > ttl)} |-> m[k]]

Sweep ==
    /\ now = nextSweep
    /\ authRequests' = SweepMap(authRequests, RequestTTL)
    /\ authCodes' = SweepMap(authCodes, RequestTTL)
    /\ refreshTokens' = SweepMap(refreshTokens, refreshExpirySeconds)
    /\ nextSweep' = now + SweepPeriod
    /\ resp' = NoResp
    /\ UNCHANGED <<mcp, now, nState, nCode, nRefresh, inflight, ghosts>>

\* -------------------------------------------------------- handleAuthorize
\* The query strings of GET /oauth/authorize: every well-formed request, and
\* one request for each precondition it can violate.
GoodQuery(h, ru, cs, lu) ==
    [response_type |-> "code", redirect_uri |-> ru, code_challenge |-> h,
     code_challenge_method |-> "S256", state |-> cs, login_url |-> lu]

ClientCb == "https://client.example/cb"

ValidQueries ==
    { GoodQuery("h1", ClientCb, "cs1", Absent),
      GoodQuery("h2", ClientCb, Absent, Absent),
      GoodQuery("h2", ClientCb, EmptyState, Absent),
      GoodQuery("h2", "not a url", "cs1", Absent),
      GoodQuery("h1", ClientCb, Absent, "not a url") }

InvalidQueries ==
    { [GoodQuery("h1", ClientCb, Absent, Absent)
          EXCEPT !.response_type = "token"],
      [GoodQuery("h1", ClientCb, Absent, Absent)
          EXCEPT !.code_challenge = Absent],
      [GoodQuery("h1", ClientCb, Absent, Absent)
          EXCEPT !.code_challenge_method = "plain"],
      [GoodQuery("h1", ClientCb, Absent, Absent)
          EXCEPT !.redirect_uri = Absent] }

AuthorizeQueries == ValidQueries \cup InvalidQueries

\* Mutant: the redirect carries a state that is not the key just stored.
UpstreamRedirectOtherState(base, internalState) ==
    [url |-> base, response_type |-> "code",
     redirect_uri |-> issuer \o "/oauth/callback",
     state |-> internalState + 1,
     scope |-> "api refresh_token", prompt |-> "login consent"]

\* The redirect to the upstream authorize endpoint (sfAuthorize.toString()).
UpstreamRedirect(base, internalState) ==
    [url |-> base, response_type |-> "code",
     redirect_uri |-> issuer \o "/oauth/callback", state |-> internalState,
     scope |-> "api refresh_token", prompt |-> "login consent"]

\* Mutant: the pending request is stored before the request is validated.
handleAuthorizeStoreFirst(q) ==
    LET internalState == nState + 1
        entry == [codeChallenge |-> q.code_challenge,
                  redirectUri |-> q.redirect_uri,
                  clientState |-> q.state,
                  createdAt |-> now]
        sfLoginUrl == IF q.login_url # Absent THEN q.login_url
                      ELSE sfAuthorizeUrl
    IN /\ UNCHANGED <<mcp, now, nextSweep, authCodes, refreshTokens, nCode,
                      nRefresh, inflight, hitCount, minted, issuedSub, okCount,
                      renewals, lastBearer>>
       /\ nState < MaxAuthorize
       /\ nState' = internalState
       /\ authRequests' = MapSet(authRequests, internalState, entry)
       /\ requested' = MapSet(requested, internalState,
                              [codeChallenge |-> q.code_challenge,
                               redirectUri |-> q.redirect_uri,
                               clientState |-> q.state])
       /\ IF q.response_type # "code"
          THEN resp' = Json("authorize", 400, "unsupported_response_type", q)
          ELSE IF q.code_challenge = Absent
                  \/ q.code_challenge_method # "S256"
                  \/ q.redirect_uri = Absent
          THEN resp' = Json("authorize", 400, "invalid_request", q)
          ELSE IF IsUrl(sfLoginUrl)
          THEN resp' = Json("authorize", 302, "none", q)
                       @@ [location |->
                             UpstreamRedirect(sfLoginUrl, internalState)]
          ELSE resp' = Json("authorize", 500, "Internal Server Error", q)

handleAuthorize(q) ==
    /\ UNCHANGED <<mcp, now, nextSweep, authCodes, refreshTokens, nCode, nRefresh,
                   inflight, hitCount, minted, issuedSub, okCount, renewals,
                   lastBearer>>
    /\ IF q.response_type # "code"
       THEN /\ resp' = Json("authorize", 400, "unsupported_response_type", q)
            /\ UNCHANGED <<authRequests, nState, requested>>
       ELSE IF q.code_challenge = Absent \/ q.code_challenge_method # "S256"
       THEN /\ resp' = Json("authorize", 400, "invalid_request", q)
            /\ UNCHANGED <<authRequests, nState, requested>>
       ELSE IF q.redirect_uri = Absent
       THEN /\ resp' = Json("authorize", 400, "invalid_request", q)
            /\ UNCHANGED <<authRequests, nState, requested>>
       ELSE
         \* internalState = base64url(randomBytes(16)): a value never drawn
         \* before
         LET internalState == nState + 1
             entry == [codeChallenge |-> q.code_challenge,
                       redirectUri |-> q.redirect_uri,
                       clientState |-> q.state,
                       createdAt |-> now]
             sfLoginUrl == IF q.login_url # Absent THEN q.login_url
                           ELSE sfAuthorizeUrl
         IN /\ nState < MaxAuthorize
            /\ nState' = internalState
            /\ authRequests' = MapSet(authRequests, internalState, entry)
            /\ requested' = MapSet(requested, internalState,
                                    [codeChallenge |-> q.code_challenge,
                                     redirectUri |-> q.redirect_uri,
                                     clientState |-> q.state])
            /\ IF IsUrl(sfLoginUrl)
               THEN resp' = Json("authorize", 302, "none", q)
                            @@ [location |->
                                  UpstreamRedirect(sfLoginUrl, internalState)]
               \* new URL(sfLoginUrl) throws out of the synchronous handler:
               \* the framework's default error handler answers
               ELSE resp' = Json("authorize", 500, "Internal Server Error", q)

Authorize == \E q \in AuthorizeQueries : handleAuthorize(q)

\* --------------------------------------------------------- handleCallback
CallbackQueries ==
    { [state |-> s, error |-> Absent] : s \in StateKeys \cup {NoKey} }
    \cup { [state |-> s, error |-> "access_denied"] : s \in {1, NoKey} }

\* Mutant: the pending request is left in the store.
ConsumePendingLate(requests, state) == requests

\* Line 167: authRequests.delete(state).
ConsumePending(requests, state) == MapDelete(requests, state)

\* Mutant: the pending request is looked up and deleted before the error
\* parameter is examined.
handleCallbackConsumeFirst(q) ==
    /\ UNCHANGED <<mcp, now, nextSweep, authCodes, refreshTokens, nState,
                   nCode, nRefresh, requested, minted, issuedSub, okCount, renewals,
                   lastBearer>>
    /\ IF ~MapHas(authRequests, q.state)
       THEN /\ resp' = Json("callback", 400,
                            IF q.error # Absent THEN q.error
                            ELSE "invalid_state", q)
            /\ UNCHANGED <<authRequests, inflight, hitCount>>
       ELSE IF q.error # Absent
       THEN /\ resp' = Json("callback", 400, q.error, q)
            /\ authRequests' = ConsumePending(authRequests, q.state)
            /\ UNCHANGED <<inflight, hitCount>>
       ELSE /\ BagCardinality(inflight) < MaxInflight
            /\ hitCount' = [hitCount EXCEPT ![q.state] = @ + 1]
            /\ authRequests' = ConsumePending(authRequests, q.state)
            /\ Suspend([op |-> "callback", req |-> q,
                        authReq |-> authRequests[q.state]])
            /\ resp' = NoResp

\* Lines 157-167: up to the await of the upstream fetch.
handleCallback(q) ==
    /\ UNCHANGED <<mcp, now, nextSweep, authCodes, refreshTokens, nState, nCode,
                   nRefresh, requested, minted, issuedSub, okCount, renewals, lastBearer>>
    /\ IF q.error # Absent
       THEN /\ resp' = Json("callback", 400, q.error, q)
            /\ UNCHANGED <<authRequests, inflight, hitCount>>
       ELSE IF ~MapHas(authRequests, q.state)
       THEN /\ resp' = Json("callback", 400, "invalid_state", q)
            /\ UNCHANGED <<authRequests, inflight, hitCount>>
       ELSE /\ BagCardinality(inflight) < MaxInflight
            /\ hitCount' = [hitCount EXCEPT ![q.state] = @ + 1]
            /\ authRequests' = ConsumePending(authRequests, q.state)
            /\ Suspend([op |-> "callback", req |-> q,
                        authReq |-> authRequests[q.state]])
            /\ resp' = NoResp

Callback == \E q \in CallbackQueries : handleCallback(q)

\* The redirect back to the client (clientRedirect.toString()).
ClientRedirect(authReq, ourCode) ==
    [url |-> authReq.redirectUri, code |-> ourCode,
     state |-> IF authReq.clientState \notin {Absent, EmptyState}
               THEN authReq.clientState
               ELSE Absent]

\* Mutant: after a failed upstream exchange the pending request is put back.
callbackUpstreamFailedRestoring(c, err) ==
    /\ inflight' = Resume(c)
    /\ authRequests' = MapSet(authRequests, c.req.state, c.authReq)
    /\ resp' = Json("callback", 500, "server_error", c.req)
               @@ [description |-> err]
    /\ UNCHANGED <<mcp, now, nextSweep, authCodes, refreshTokens, nState,
                   nCode, nRefresh, ghosts>>

\* Lines 183-186 and 207-210: the fetch failed or answered non-2xx; err is
\* the message of the error the catch receives.
callbackUpstreamFailed(c, err) ==
    /\ inflight' = Resume(c)
    /\ resp' = Json("callback", 500, "server_error", c.req)
               @@ [description |-> err]
    /\ UNCHANGED <<mcp, now, nextSweep, stores, nState, nCode, nRefresh, ghosts>>

\* Mutant: the code is bound to the challenge of the latest authorize
\* request instead of the one of its own pending request.
callbackUpstreamOkLatestChallenge(c, sfTokens) ==
    LET ourCode == nCode + 1
        entry == [sfAccessToken |-> sfTokens.access_token,
                  sfRefreshToken |-> sfTokens.refresh_token,
                  sfInstanceUrl |-> sfTokens.instance_url,
                  orgId |-> OrgIdOf(sfTokens.id),
                  codeChallenge |-> requested[nState].codeChallenge,
                  createdAt |-> now]
    IN /\ nCode < MaxCodes
       /\ inflight' = Resume(c)
       /\ nCode' = ourCode
       /\ authCodes' = MapSet(authCodes, ourCode, entry)
       /\ minted' = MapSet(minted, ourCode,
                           [state |-> c.req.state,
                            codeChallenge |-> entry.codeChallenge])
       /\ IF IsUrl(c.authReq.redirectUri)
          THEN resp' = Json("callback", 302, "none", c.req)
                       @@ [location |-> ClientRedirect(c.authReq, ourCode)]
          ELSE resp' = Json("callback", 500, "server_error", c.req)
                       @@ [description |-> "Invalid URL"]
       /\ UNCHANGED <<mcp, now, nextSweep, authRequests, refreshTokens, nState,
                      nRefresh, hitCount, requested, issuedSub, okCount,
                      renewals, lastBearer>>

\* Lines 188-210: the fetch answered 2xx with sfTokens.
callbackUpstreamOk(c, sfTokens) ==
    LET ourCode == nCode + 1
        entry == [sfAccessToken |-> sfTokens.access_token,
                  sfRefreshToken |-> sfTokens.refresh_token,
                  sfInstanceUrl |-> sfTokens.instance_url,
                  orgId |-> OrgIdOf(sfTokens.id),
                  codeChallenge |-> c.authReq.codeChallenge,
                  createdAt |-> now]
    IN /\ nCode < MaxCodes
       /\ inflight' = Resume(c)
       /\ nCode' = ourCode
       /\ authCodes' = MapSet(authCodes, ourCode, entry)
       /\ minted' = MapSet(minted, ourCode,
                           [state |-> c.req.state,
                            codeChallenge |-> entry.codeChallenge])
       /\ IF IsUrl(c.authReq.redirectUri)
          THEN resp' = Json("callback", 302, "none", c.req)
                       @@ [location |-> ClientRedirect(c.authReq, ourCode)]
          \* new URL(authReq.redirectUri) throws into the catch
          ELSE resp' = Json("callback", 500, "server_error", c.req)
                       @@ [description |-> "Invalid URL"]
       /\ UNCHANGED <<mcp, now, nextSweep, authRequests, refreshTokens, nState,
                      nRefresh, hitCount, requested, issuedSub, okCount,
                      renewals, lastBearer>>

CallbackUpstreamFailed ==
    \E c \in InflightOf("callback") : \E err \in ExchangeFailures :
        callbackUpstreamFailed(c, err)

CallbackUpstreamOk ==
    \E c \in InflightOf("callback") : \E sfTokens \in SfTokenResponses :
        callbackUpstreamOk(c, sfTokens)

\* ------------------------------------------------------------ handleToken
TokenBodies ==
    { [grant_type |-> "authorization_code", code |-> c, code_verifier |-> v,
       refresh_token |-> NoKey] : c \in CodeKeys, v \in Verifiers }
    \cup { [grant_type |-> "authorization_code", code |-> NoKey,
            code_verifier |-> "v1", refresh_token |-> NoKey],
           [grant_type |-> "authorization_code", code |-> 1,
            code_verifier |-> Absent, refresh_token |-> NoKey] }
    \cup { [grant_type |-> "refresh_token", code |-> NoKey,
            code_verifier |-> Absent, refresh_token |-> r] :
             r \in RefreshKeys \cup {NoKey} }
    \cup { [grant_type |-> g, code |-> 1, code_verifier |-> "v1",
            refresh_token |-> 1] : g \in {"password", Absent} }

\* Mutant: the code is left in the store.
ConsumeCodeLate(codes, code) == codes

\* Mutant: redeeming one code clears the whole store.
ConsumeCodeAll(codes, code) == EmptyMap

\* Line 233: authCodes.delete(code).
ConsumeCode(codes, code) == MapDelete(codes, code)

\* Mutant: the code is deleted only once the PKCE check has passed.
tokenAuthorizationCodeDeleteOnMatch(b) ==
    /\ UNCHANGED <<mcp, now, nextSweep, authRequests, refreshTokens, nState, nCode,
                   nRefresh, ghosts>>
    /\ IF b.code = NoKey \/ b.code_verifier = Absent
       THEN /\ resp' = Json("token", 400, "invalid_request", b)
            /\ UNCHANGED <<authCodes, inflight>>
       ELSE IF ~MapHas(authCodes, b.code)
       THEN /\ resp' = Json("token", 400, "invalid_grant", b)
                       @@ [description |-> "Code expired or invalid"]
            /\ UNCHANGED <<authCodes, inflight>>
       ELSE LET authCode == authCodes[b.code]
            IN /\ authCodes' =
                     IF verifyCodeChallenge(b.code_verifier,
                                            authCode.codeChallenge)
                     THEN ConsumeCode(authCodes, b.code) ELSE authCodes
               /\ IF ~verifyCodeChallenge(b.code_verifier,
                                          authCode.codeChallenge)
                  THEN /\ resp' = Json("token", 400, "invalid_grant", b)
                                  @@ [description |->
                                        "PKCE verification failed"]
                       /\ UNCHANGED inflight
                  ELSE /\ BagCardinality(inflight) < MaxInflight
                       /\ nRefresh + CountOf("token") < MaxRefresh
                       /\ Suspend([op |-> "token", req |-> b,
                                   authCode |-> authCode,
                                   jwt |-> createJWT(
                                      [sub |-> authCode.orgId,
                                       instance_url |-> authCode.sfInstanceUrl,
                                       sf_token |-> authCode.sfAccessToken,
                                       scope |-> TokenScope], now)])
                       /\ resp' = NoResp

\* Mutant: the code is looked up and deleted before the parameters are
\* checked for presence.
tokenAuthorizationCodeLookupFirst(b) ==
    /\ UNCHANGED <<mcp, now, nextSweep, authRequests, refreshTokens, nState,
                   nCode, nRefresh, ghosts>>
    /\ IF b.code = NoKey \/ ~MapHas(authCodes, b.code)
       THEN /\ resp' = IF b.code = NoKey \/ b.code_verifier = Absent
                       THEN Json("token", 400, "invalid_request", b)
                       ELSE Json("token", 400, "invalid_grant", b)
                            @@ [description |-> "Code expired or invalid"]
            /\ UNCHANGED <<authCodes, inflight>>
       ELSE LET authCode == authCodes[b.code]
            IN /\ authCodes' = ConsumeCode(authCodes, b.code)
               /\ IF b.code_verifier = Absent
                  THEN /\ resp' = Json("token", 400, "invalid_request", b)
                       /\ UNCHANGED inflight
                  ELSE IF ~verifyCodeChallenge(b.code_verifier,
                                               authCode.codeChallenge)
                  THEN /\ resp' = Json("token", 400, "invalid_grant", b)
                                  @@ [description |->
                                        "PKCE verification failed"]
                       /\ UNCHANGED inflight
                  ELSE /\ BagCardinality(inflight) < MaxInflight
                       /\ nRefresh + CountOf("token") < MaxRefresh
                       /\ Suspend([op |-> "token", req |-> b,
                                   authCode |-> authCode,
                                   jwt |-> createJWT(
                                      [sub |-> authCode.orgId,
                                       instance_url |-> authCode.sfInstanceUrl,
                                       sf_token |-> authCode.sfAccessToken,
                                       scope |-> TokenScope], now)])
                       /\ resp' = NoResp

\* Mutant: a code that is not stored is reported as a malformed request.
tokenAuthorizationCodeMissAsRequest(b) ==
    /\ UNCHANGED <<mcp, now, nextSweep, authRequests, refreshTokens, nState,
                   nCode, nRefresh, ghosts>>
    /\ IF b.code = NoKey \/ b.code_verifier = Absent
          \/ ~MapHas(authCodes, b.code)
       THEN /\ resp' = Json("token", 400, "invalid_request", b)
            /\ UNCHANGED <<authCodes, inflight>>
       ELSE LET authCode == authCodes[b.code]
            IN /\ authCodes' = ConsumeCode(authCodes, b.code)
               /\ IF ~verifyCodeChallenge(b.code_verifier,
                                          authCode.codeChallenge)
                  THEN /\ resp' = Json("token", 400, "invalid_grant", b)
                                  @@ [description |->
                                        "PKCE verification failed"]
                       /\ UNCHANGED inflight
                  ELSE /\ BagCardinality(inflight) < MaxInflight
                       /\ nRefresh + CountOf("token") < MaxRefresh
                       /\ Suspend([op |-> "token", req |-> b,
                                   authCode |-> authCode,
                                   jwt |-> createJWT(
                                      [sub |-> authCode.orgId,
                                       instance_url |-> authCode.sfInstanceUrl,
                                       sf_token |-> authCode.sfAccessToken,
                                       scope |-> TokenScope], now)])
                       /\ resp' = NoResp

\* Lines 224-246: the authorization_code grant up to the await of createJWT.
tokenAuthorizationCode(b) ==
    /\ UNCHANGED <<mcp, now, nextSweep, authRequests, refreshTokens, nState, nCode,
                   nRefresh, ghosts>>
    /\ IF b.code = NoKey \/ b.code_verifier = Absent
       THEN /\ resp' = Json("token", 400, "invalid_request", b)
            /\ UNCHANGED <<authCodes, inflight>>
       ELSE IF ~MapHas(authCodes, b.code)
       THEN /\ resp' = Json("token", 400, "invalid_grant", b)
                       @@ [description |-> "Code expired or invalid"]
            /\ UNCHANGED <<authCodes, inflight>>
       ELSE LET authCode == authCodes[b.code]
            IN /\ authCodes' = ConsumeCode(authCodes, b.code)
               /\ IF ~verifyCodeChallenge(b.code_verifier,
                                          authCode.codeChallenge)
                  THEN /\ resp' = Json("token", 400, "invalid_grant", b)
                                  @@ [description |->
                                        "PKCE verification failed"]
                       /\ UNCHANGED inflight
                  ELSE /\ BagCardinality(inflight) < MaxInflight
                       /\ nRefresh + CountOf("token") < MaxRefresh
                       /\ Suspend([op |-> "token", req |-> b,
                                   authCode |-> authCode,
                                   jwt |-> createJWT(
                                      [sub |-> authCode.orgId,
                                       instance_url |-> authCode.sfInstanceUrl,
                                       sf_token |-> authCode.sfAccessToken,
                                       scope |-> TokenScope], now)])
                       /\ resp' = NoResp

\* Mutant: the refresh token is handed out but no record of it is stored.
tokenSignedUnstored(c) ==
    LET newRefreshToken == nRefresh + 1
    IN /\ inflight' = Resume(c)
       /\ nRefresh' = newRefreshToken
       /\ refreshTokens' = refreshTokens
       /\ resp' = Json("token", 200, "none", c.req)
                  @@ [access_token |-> c.jwt, token_type |-> "Bearer",
                      expires_in |-> tokenExpirySeconds,
                      refresh_token |-> newRefreshToken,
                      scope |-> TokenScope]
       /\ okCount' = [okCount EXCEPT ![c.req.code] = @ + 1]
       /\ issuedSub' = MapSet(issuedSub, newRefreshToken, c.jwt.sub)
       /\ UNCHANGED <<mcp, now, nextSweep, authRequests, authCodes, nState,
                      nCode, hitCount, requested, minted, renewals,
                      lastBearer>>

\* Mutant: every refresh record is made for the tenant "orgA".
tokenSignedFixedTenant(c) ==
    LET newRefreshToken == nRefresh + 1
    IN /\ inflight' = Resume(c)
       /\ nRefresh' = newRefreshToken
       /\ refreshTokens' = MapSet(refreshTokens, newRefreshToken,
             [sfRefreshToken |-> c.authCode.sfRefreshToken,
              sfInstanceUrl |-> c.authCode.sfInstanceUrl,
              orgId |-> "orgA",
              createdAt |-> now])
       /\ resp' = Json("token", 200, "none", c.req)
                  @@ [access_token |-> c.jwt, token_type |-> "Bearer",
                      expires_in |-> tokenExpirySeconds,
                      refresh_token |-> newRefreshToken,
                      scope |-> TokenScope]
       /\ okCount' = [okCount EXCEPT ![c.req.code] = @ + 1]
       /\ issuedSub' = MapSet(issuedSub, newRefreshToken, c.jwt.sub)
       /\ UNCHANGED <<mcp, now, nextSweep, authRequests, authCodes, nState,
                      nCode, hitCount, requested, minted, renewals,
                      lastBearer>>

\* Lines 248-263: the signature is made; the refresh record and the answer.
tokenSigned(c) ==
    LET newRefreshToken == nRefresh + 1
    IN /\ inflight' = Resume(c)
       /\ nRefresh' = newRefreshToken
       /\ refreshTokens' = MapSet(refreshTokens, newRefreshToken,
             [sfRefreshToken |-> c.authCode.sfRefreshToken,
              sfInstanceUrl |-> c.authCode.sfInstanceUrl,
              orgId |-> c.authCode.orgId,
              createdAt |-> now])
       /\ resp' = Json("token", 200, "none", c.req)
                  @@ [access_token |-> c.jwt, token_type |-> "Bearer",
                      expires_in |-> tokenExpirySeconds,
                      refresh_token |-> newRefreshToken,
                      scope |-> TokenScope]
       /\ okCount' = [okCount EXCEPT ![c.req.code] = @ + 1]
       /\ issuedSub' = MapSet(issuedSub, newRefreshToken, c.jwt.sub)
       /\ UNCHANGED <<mcp, now, nextSweep, authRequests, authCodes, nState, nCode,
                      hitCount, requested, minted, renewals, lastBearer>>

\* Lines 266-287: the refresh_token grant up to the await of the upstream
\* fetch.
tokenRefresh(b) ==
    /\ UNCHANGED <<mcp, now, nextSweep, stores, nState, nCode, nRefresh, ghosts>>
    /\ IF b.refresh_token = NoKey
       THEN /\ resp' = Json("token", 400, "invalid_request", b)
            /\ UNCHANGED inflight
       ELSE IF ~MapHas(refreshTokens, b.refresh_token)
       THEN /\ resp' = Json("token", 400, "invalid_grant", b)
                       @@ [description |-> "Refresh token expired or invalid"]
            /\ UNCHANGED inflight
       ELSE /\ BagCardinality(inflight) < MaxInflight
            /\ Suspend([op |-> "refresh", req |-> b,
                        stored |-> refreshTokens[b.refresh_token]])
            /\ resp' = NoResp

\* Mutant: the code and the refresh token carried by a request of an
\* unsupported grant type are deleted.
tokenUnsupportedConsuming(b) ==
    /\ resp' = Json("token", 400, "unsupported_grant_type", b)
    /\ authCodes' = MapDelete(authCodes, b.code)
    /\ refreshTokens' = MapDelete(refreshTokens, b.refresh_token)
    /\ UNCHANGED <<mcp, now, nextSweep, authRequests, nState, nCode, nRefresh,
                   inflight, ghosts>>

\* Line 311.
tokenUnsupported(b) ==
    /\ resp' = Json("token", 400, "unsupported_grant_type", b)
    /\ UNCHANGED <<mcp, now, nextSweep, stores, nState, nCode, nRefresh, inflight,
                   ghosts>>

handleToken(b) ==
    IF b.grant_type = "authorization_code" THEN tokenAuthorizationCode(b)
    ELSE IF b.grant_type = "refresh_token" THEN tokenRefresh(b)
    ELSE tokenUnsupported(b)

Token == \E b \in TokenBodies : handleToken(b)

TokenSigned == \E c \in InflightOf("token") : tokenSigned(c)

\* Mutant: the record survives the failed refresh.
RevokeNothing(tokens, refresh_token) == tokens

\* Line 306: refreshTokens.delete(refresh_token).
Revoke(tokens, refresh_token) == MapDelete(tokens, refresh_token)

\* Lines 289 and 305-308: the upstream refresh failed; the catch revokes.
refreshUpstreamFailed(c) ==
    /\ inflight' = Resume(c)
    /\ refreshTokens' = Revoke(refreshTokens, c.req.refresh_token)
    /\ resp' = Json("token", 400, "invalid_grant", c.req)
               @@ [description |-> "SF refresh failed"]
    /\ UNCHANGED <<mcp, now, nextSweep, authRequests, authCodes, nState, nCode,
                   nRefresh, ghosts>>

\* Mutant: a successful refresh rotates the refresh token.
refreshUpstreamOkRotating(c, sfTokens) ==
    LET accessToken == createJWT(
            [sub |-> c.stored.orgId,
             instance_url |-> IF sfTokens.instance_url # Absent
                              THEN sfTokens.instance_url
                              ELSE c.stored.sfInstanceUrl,
             sf_token |-> sfTokens.access_token,
             scope |-> TokenScope], now)
    IN /\ inflight' = Resume(c)
       /\ resp' = Json("token", 200, "none", c.req)
                  @@ [access_token |-> accessToken, token_type |-> "Bearer",
                      expires_in |-> tokenExpirySeconds,
                      scope |-> TokenScope,
                      refresh_token |-> nRefresh + 1]
       /\ nRefresh < MaxRefresh
       /\ nRefresh' = nRefresh + 1
       /\ refreshTokens' =
             MapSet(MapDelete(refreshTokens, c.req.refresh_token),
                    nRefresh + 1, [c.stored EXCEPT !.createdAt = now])
       /\ renewals' = Min(renewals + 1, MaxRenewals)
       /\ UNCHANGED <<mcp, now, nextSweep, authRequests, authCodes, nState,
                      nCode, hitCount, requested, minted, issuedSub, okCount, lastBearer>>

\* Mutant: the tenant of the new token is taken from the upstream's refresh
\* answer, which carries no identity URL.
refreshUpstreamOkTenantFromAnswer(c, sfTokens) ==
    LET accessToken == createJWT(
            [sub |-> OrgIdOf(<<>>),
             instance_url |-> IF sfTokens.instance_url # Absent
                              THEN sfTokens.instance_url
                              ELSE c.stored.sfInstanceUrl,
             sf_token |-> sfTokens.access_token,
             scope |-> TokenScope], now)
    IN /\ inflight' = Resume(c)
       /\ resp' = Json("token", 200, "none", c.req)
                  @@ [access_token |-> accessToken, token_type |-> "Bearer",
                      expires_in |-> tokenExpirySeconds,
                      scope |-> TokenScope]
       /\ renewals' = Min(renewals + 1, MaxRenewals)
       /\ UNCHANGED <<mcp, now, nextSweep, stores, nState, nCode, nRefresh,
                      hitCount, requested, minted, issuedSub, okCount,
                      lastBearer>>

\* Lines 290-304: the upstream refresh answered 2xx with sfTokens.
refreshUpstreamOk(c, sfTokens) ==
    LET accessToken == createJWT(
            [sub |-> c.stored.orgId,
             instance_url |-> IF sfTokens.instance_url # Absent
                              THEN sfTokens.instance_url
                              ELSE c.stored.sfInstanceUrl,
             sf_token |-> sfTokens.access_token,
             scope |-> TokenScope], now)
    IN /\ inflight' = Resume(c)
       /\ resp' = Json("token", 200, "none", c.req)
                  @@ [access_token |-> accessToken, token_type |-> "Bearer",
                      expires_in |-> tokenExpirySeconds,
                      scope |-> TokenScope]
       /\ renewals' = Min(renewals + 1, MaxRenewals)
       /\ UNCHANGED <<mcp, now, nextSweep, stores, nState, nCode, nRefresh,
                      hitCount, requested, minted, issuedSub, okCount, lastBearer>>

RefreshUpstreamFailed ==
    \E c \in InflightOf("refresh") : refreshUpstreamFailed(c)

RefreshUpstreamOk ==
    \E c \in InflightOf("refresh") : \E sfTokens \in SfRefreshResponses :
        refreshUpstreamOk(c, sfTokens)

\* ------------------------------------------------ failures inside the server
\* Line 241: createJWT rejects in the authorization_code grant.  No try
\* encloses the await, so the promise of handleToken rejects with the code
\* already deleted; what the client then sees is the web framework's matter:
\* nothing at all when it ignores the rejected promise of a handler, its
\* default 500 answer when it forwards the rejection to its error handler.
tokenSignFailed(c) ==
    /\ inflight' = Resume(c)
    /\ resp' \in {NoResp, Json("token", 500, "Internal Server Error", c.req)}
    /\ UNCHANGED <<mcp, now, nextSweep, stores, nState, nCode, nRefresh,
                   ghosts>>

TokenSignFailed == \E c \in InflightOf("token") : tokenSignFailed(c)

\* Lines 290-297 and 305-308: the upstream refresh answered 2xx, and then
\* sfRes.json() (cause "json": the body is no JSON) or createJWT (cause
\* "sign") throws inside the try; the catch is the one of an upstream failure.
\* The body sent is the same; thrown records, for the properties, what threw.
RefreshLocalCauses == {"json", "sign"}

refreshLocalFailure(c, cause) ==
    /\ cause \in RefreshLocalCauses
    /\ inflight' = Resume(c)
    /\ refreshTokens' = Revoke(refreshTokens, c.req.refresh_token)
    /\ resp' = Json("token", 400, "invalid_grant", c.req)
               @@ [description |-> "SF refresh failed", thrown |-> cause]
    /\ UNCHANGED <<mcp, now, nextSweep, authRequests, authCodes, nState, nCode,
                   nRefresh, ghosts>>

RefreshLocalFailure ==
    \E c \in InflightOf("refresh") : \E cause \in RefreshLocalCauses :
        refreshLocalFailure(c, cause)

\* -------------------------------------------------------- oauthMiddleware
\* The payloads handleToken signs: one for each upstream answer.
Payloads ==
    { [sub |-> OrgIdOf(r.id), instance_url |-> r.instance_url,
       sf_token |-> r.access_token, scope |-> TokenScope] :
        r \in SfTokenResponses }

\* Tokens this server can have signed by now: createJWT at an earlier instant.
SignedTokens ==
    { createJWT(p, t) : p \in Payloads,
                        t \in {x \in {0, ClockStep} : x <= now} }

\* Authorization headers: none, another scheme, and "Bearer " followed by a
\* token this server signed, by that token with a signature made with another
\* key, or by a token of another issuer.
AuthHeaders ==
    { [prefix |-> Absent, rest |-> Absent],
      [prefix |-> "Basic ", rest |-> "dXNlcjpwdw"] }
    \cup { [prefix |-> "Bearer ", rest |-> t] : t \in SignedTokens }
    \cup { [prefix |-> "Bearer ", rest |-> [t EXCEPT !.sig = "otherSecret"]] :
             t \in SignedTokens }
    \cup { [prefix |-> "Bearer ", rest |-> [t EXCEPT !.iss = "https://evil"]] :
             t \in SignedTokens }

\* What the properties remember of an answer of the middleware: the answer,
\* the instant, and the keys the three stores held.
Remembered(r) ==
    r @@ [t |-> now, keys |-> <<DOMAIN authRequests, DOMAIN authCodes,
                                DOMAIN refreshTokens>>]

\* Mutant: the middleware accepts a token only while a refresh record of its
\* tenant is stored.
oauthMiddlewareStoreLookup(auth) ==
    /\ IF auth.prefix # "Bearer "
       THEN resp' = Json("bearer", 401, "unauthorized", auth)
                    @@ [next |-> FALSE, sfAuth |-> Absent]
       ELSE IF /\ verifyJWT(auth.rest, now)
               /\ \E r \in DOMAIN refreshTokens :
                     refreshTokens[r].orgId = auth.rest.sub
       THEN resp' = Json("bearer", 200, "none", auth)
                    @@ [next |-> TRUE,
                        sfAuth |-> [orgId |-> auth.rest.sub,
                                    instanceUrl |-> auth.rest.instance_url,
                                    sfToken |-> auth.rest.sf_token,
                                    scope |-> auth.rest.scope]]
       ELSE resp' = Json("bearer", 401, "invalid_token", auth)
                    @@ [next |-> FALSE, sfAuth |-> Absent]
    /\ lastBearer' \in {lastBearer, Remembered(resp')}
    /\ UNCHANGED <<mcp, now, nextSweep, stores, nState, nCode, nRefresh, inflight,
                   hitCount, requested, minted, issuedSub, okCount, renewals>>

\* Lines 319-337; auth.prefix is the first seven characters of the header
\* and auth.rest is auth.slice(7).
oauthMiddleware(auth) ==
    /\ IF auth.prefix # "Bearer "
       THEN resp' = Json("bearer", 401, "unauthorized", auth)
                    @@ [next |-> FALSE, sfAuth |-> Absent]
       ELSE IF verifyJWT(auth.rest, now)
       THEN resp' = Json("bearer", 200, "none", auth)
                    @@ [next |-> TRUE,
                        sfAuth |-> [orgId |-> auth.rest.sub,
                                    instanceUrl |-> auth.rest.instance_url,
                                    sfToken |-> auth.rest.sf_token,
                                    scope |-> auth.rest.scope]]
       ELSE resp' = Json("bearer", 401, "invalid_token", auth)
                    @@ [next |-> FALSE, sfAuth |-> Absent]
    /\ lastBearer' \in {lastBearer, Remembered(resp')}
    /\ UNCHANGED <<mcp, now, nextSweep, stores, nState, nCode, nRefresh, inflight,
                   hitCount, requested, minted, issuedSub, okCount, renewals>>

Bearer == \E auth \in AuthHeaders : oauthMiddleware(auth)

\* ------------------------------------------- the /mcp routes (server.js)
\* A header value that is no token signed by this server.
Opaque(text) == [opaque |-> text]

\* The requests to /mcp: the x-api-key and Authorization headers, the
\* mcp-session-id header and whether the body is an initialize request.
McpAuthHeaders ==
    { [prefix |-> Absent, rest |-> Opaque(Absent)],
      [prefix |-> "Bearer ", rest |-> Opaque("k1")],
      [prefix |-> "Basic ", rest |-> Opaque("k1")] }
    \cup { [prefix |-> "Bearer ", rest |-> t] : t \in SignedTokens }

McpRequests ==
    [ method : {"POST", "GET", "DELETE"},
      xApiKey : {Absent, "k1", "wrong"},
      authorization : McpAuthHeaders,
      sessionId : (1..MaxSessions) \cup {NoKey} \cup PrototypeKeys,
      isInitialize : BOOLEAN ]

\* req.headers['x-api-key'] || req.headers.authorization?.replace('Bearer ', '')
Provided(req) ==
    IF req.xApiKey # Absent THEN Opaque(req.xApiKey)
    ELSE IF req.authorization.prefix = Absent THEN Opaque(Absent)
    ELSE IF req.authorization.prefix = "Bearer " THEN req.authorization.rest
    ELSE Opaque(req.authorization.prefix \o req.authorization.rest.opaque)

\* Lines 949-956: TRUE when the middleware calls next().
apiKeyAuth(req) ==
    \/ API_KEY = Absent
    \/ ~(Provided(req) # Opaque(API_KEY))

Unauthorized(req) ==
    Json("mcp", 401, "Unauthorized", req)
    @@ [next |-> FALSE, transport |-> NoKey]
BadSession(req) ==
    Json("mcp", 400, "No valid session ID", req)
    @@ [next |-> TRUE, transport |-> NoKey]
\* The request is given to transport.handleRequest; the answer is the
\* transport's.
Dispatched(req, sid) ==
    Json("mcp", 200, "none", req) @@ [next |-> TRUE, transport |-> sid]

\* Mutant: the generator hands out an id that is not registered now, which
\* can be the id of a closed session.
NewSessionIdReused == CHOOSE i \in 1..(nSession + 1) : ~MapHas(transports, i)

\* sessionIdGenerator: () => randomUUID() (line 970): an id never generated
\* before.
NewSessionId == nSession + 1

\* The catch of handlePost (lines 995-1004).
InternalError(req) ==
    Json("mcp", 500, "Internal server error", req)
    @@ [next |-> TRUE, transport |-> NoKey]

\* transports[sessionId] on the plain object of line 959, as a condition:
\* truthy for a registered session, and for a name that Object.prototype
\* gives to every object.
Found(sessionId) ==
    MapHas(transports, sessionId) \/ sessionId \in PrototypeKeys

\* Lines 961-1005 behind apiKeyAuth.  An initialize request without a session
\* id makes a transport, whose handleRequest generates the session id and
\* registers it (onsessioninitialized).  Under a name of Object.prototype the
\* lookup gives a value that has no handleRequest: the call throws a
\* TypeError inside the try.
handlePost(req) ==
    /\ req.method = "POST"
    /\ IF ~apiKeyAuth(req)
       THEN /\ resp' = Unauthorized(req)
            /\ UNCHANGED <<transports, nSession>>
       ELSE IF req.sessionId # NoKey /\ Found(req.sessionId)
       THEN /\ IF MapHas(transports, req.sessionId)
               THEN resp' = Dispatched(req, req.sessionId)
               ELSE resp' = InternalError(req)
            /\ UNCHANGED <<transports, nSession>>
       ELSE IF req.sessionId = NoKey /\ req.isInitialize
       THEN LET sid == NewSessionId
            IN /\ nSession < MaxSessions
               /\ nSession' = sid
               /\ transports' = MapSet(transports, sid, [sessionId |-> sid])
               /\ resp' = Dispatched(req, sid)
       ELSE /\ resp' = BadSession(req)
            /\ UNCHANGED <<transports, nSession>>
    /\ UNCHANGED <<API_KEY, now, nextSweep, stores, nState, nCode, nRefresh,
                   inflight, ghosts>>

\* Lines 1007-1021 behind apiKeyAuth: handleGet and handleDelete.  Under a
\* name of Object.prototype the call of handleRequest throws with no try
\* around it: the promise of the handler rejects, and the client gets no
\* answer or the web framework's 500, as the framework treats the rejection.
handleGetOrDelete(req) ==
    /\ req.method \in {"GET", "DELETE"}
    /\ IF ~apiKeyAuth(req)
       THEN resp' = Unauthorized(req)
       ELSE IF req.sessionId = NoKey \/ ~Found(req.sessionId)
       THEN resp' = BadSession(req)
       ELSE IF MapHas(transports, req.sessionId)
       THEN resp' = Dispatched(req, req.sessionId)
       ELSE resp' \in {NoResp, InternalError(req)}
    /\ UNCHANGED <<mcp, now, nextSweep, stores, nState, nCode, nRefresh,
                   inflight, ghosts>>

McpPost == \E req \in McpRequests : handlePost(req)
McpGetOrDelete == \E req \in McpRequests : handleGetOrDelete(req)

\* Lines 976-982: transport.onclose unregisters the session.
TransportClose ==
    \E sid \in DOMAIN transports :
        /\ transports' = MapDelete(transports, sid)
        /\ resp' = NoResp
        /\ UNCHANGED <<API_KEY, nSession, now, nextSweep, stores, nState,
                       nCode, nRefresh, inflight, ghosts>>

\* ------------------------------------------------------------------- Next
\* Spec: the handlers with the clock and the sweeper, MaxTimedFlows
\* authorization flows.
AuthorizeTimed ==
    \E q \in AuthorizeQueries :
        handleAuthorize(q) /\ nState' <= MaxTimedFlows

Next ==
    \/ Tick
    \/ Sweep
    \/ AuthorizeTimed
    \/ Callback
    \/ CallbackUpstreamFailed
    \/ CallbackUpstreamOk
    \/ Token
    \/ TokenSigned
    \/ RefreshUpstreamFailed
    \/ RefreshUpstreamOk

Spec == Init /\ [][Next]_vars

\* SpecFlows: MaxAuthorize authorization flows and their requests interleaved
\* within one instant of the clock.
NextFlows ==
    \/ Authorize
    \/ Callback
    \/ CallbackUpstreamFailed
    \/ CallbackUpstreamOk
    \/ Token
    \/ TokenSigned
    \/ RefreshUpstreamFailed
    \/ RefreshUpstreamOk

SpecFlows == Init /\ [][NextFlows]_vars

\* SpecBearer: the Bearer middleware over the lifetime of a token, beside one
\* authorization flow that runs while now <= ClockStep and changes the stores.
TickLong == TickUpTo(MaxBearerTime)

FlowQuery == GoodQuery("h1", ClientCb, "cs1", Absent)
FlowSfTokens ==
    CHOOSE r \in SfTokenResponses : r.refresh_token # Absent

EarlyFlow ==
    /\ now <= ClockStep
    /\ \/ handleAuthorize(FlowQuery) /\ nState' <= MaxTimedFlows
       \/ handleCallback([state |-> 1, error |-> Absent])
       \/ \E c \in InflightOf("callback") :
              callbackUpstreamOk(c, FlowSfTokens)
       \/ handleToken([grant_type |-> "authorization_code", code |-> 1,
                       code_verifier |-> "v1", refresh_token |-> NoKey])
       \/ TokenSigned
       \/ handleToken([grant_type |-> "refresh_token", code |-> NoKey,
                       code_verifier |-> Absent, refresh_token |-> 1])
       \/ RefreshUpstreamFailed

NextBearer ==
    \/ TickLong
    \/ Sweep
    \/ Bearer
    \/ EarlyFlow

SpecBearer == Init /\ [][NextBearer]_vars

\* SpecUpstream: one authorization flow and its refresh exchanges, for the
\* progress of the handlers.  A signature that was started is made
\* (createJWT is local work); the two upstream fetches are given no option
\* that bounds their duration (lines 171-181, 278-287), so nothing in the
\* handlers makes a suspended fetch complete when the upstream stays silent.
NextUpstream ==
    \/ AuthorizeTimed
    \/ Callback
    \/ CallbackUpstreamFailed
    \/ CallbackUpstreamOk
    \/ Token
    \/ TokenSigned
    \/ RefreshUpstreamFailed
    \/ RefreshUpstreamOk

SpecUpstream == Init /\ [][NextUpstream]_vars /\ WF_vars(TokenSigned)

\* SpecSweep: one authorization flow at the start of the run, then the
\* sweeper alone for longer than the TTL of a refresh record.
FlowAtStart ==
    /\ now = 0
    /\ \/ handleAuthorize(FlowQuery) /\ nState' <= MaxTimedFlows
       \/ handleCallback([state |-> 1, error |-> Absent])
       \/ \E c \in InflightOf("callback") :
              callbackUpstreamOk(c, FlowSfTokens)
       \/ \E v \in Verifiers :
              handleToken([grant_type |-> "authorization_code", code |-> 1,
                           code_verifier |-> v, refresh_token |-> NoKey])
       \/ TokenSigned

NextSweep ==
    \/ TickToSweep
    \/ Sweep
    \/ FlowAtStart

SpecSweep == Init /\ [][NextSweep]_vars

\* SpecFaults: one authorization flow and its refresh exchanges, where the
\* signature and the reading of the upstream's answer can fail.
NextFaults ==
    \/ AuthorizeTimed
    \/ Callback
    \/ CallbackUpstreamFailed
    \/ CallbackUpstreamOk
    \/ Token
    \/ TokenSigned
    \/ TokenSignFailed
    \/ RefreshUpstreamFailed
    \/ RefreshUpstreamOk
    \/ RefreshLocalFailure

SpecFaults == Init /\ [][NextFaults]_vars

\* SpecLate: the handlers, the clock and the sweeper as in Spec, up to the
\* second run of the sweeper.
TickLate == TickUpTo(MaxLateTime)

NextLate ==
    \/ TickLate
    \/ Sweep
    \/ AuthorizeTimed
    \/ Callback
    \/ CallbackUpstreamFailed
    \/ CallbackUpstreamOk
    \/ Token
    \/ TokenSigned
    \/ RefreshUpstreamFailed
    \/ RefreshUpstreamOk

SpecLate == Init /\ [][NextLate]_vars

\* SpecMcp: the HTTP mode of src/server.js, started with or without
\* STRATOFORCE_API_KEY.
InitMcp ==
    /\ now = 0
    /\ nextSweep = SweepPeriod
    /\ authRequests = EmptyMap
    /\ authCodes = EmptyMap
    /\ refreshTokens = EmptyMap
    /\ nState = 0
    /\ nCode = 0
    /\ nRefresh = 0
    /\ inflight = EmptyBag
    /\ resp = NoResp
    /\ hitCount = [s \in StateKeys |-> 0]
    /\ requested = EmptyMap
    /\ minted = EmptyMap
    /\ issuedSub = EmptyMap
    /\ okCount = [c \in CodeKeys |-> 0]
    /\ renewals = 0
    /\ lastBearer = NoResp
    /\ API_KEY \in {Absent, "k1"}
    /\ transports = EmptyMap
    /\ nSession = 0

NextMcp ==
    \/ McpPost
    \/ McpGetOrDelete
    \/ TransportClose

SpecMcp == InitMcp /\ [][NextMcp]_vars

\* ------------------------------------------------------------ properties
\* Words for the properties.  A handler answers in the step that received the
\* request (the bag of suspended handlers is unchanged) or in the step that
\* resumes a suspended handler.
IsCodeGrant(r) ==
    r.op = "token" /\ r.req.grant_type = "authorization_code"
IsRefreshGrant(r) ==
    r.op = "token" /\ r.req.grant_type = "refresh_token"
AnsweredAtOnce == resp'.op # "none" /\ inflight' = inflight
AnsweredOnResume == resp'.op # "none" /\ inflight' # inflight
InvalidGrant(r) == r.status = 400 /\ r.error = "invalid_grant"

\* A redemption of code c passed the PKCE check and is being signed.
Redeeming(c) == \E k \in InflightOf("token") : k.req.code = c
\* Redemptions of c that succeeded or are on their way to success.
Winners(c) ==
    okCount[c] + Copies({k \in InflightOf("token") : k.req.code = c})
Expired(entry) == now - entry.createdAt > RequestTTL
RECURSIVE SumOver(_, _)
SumOver(f, S) ==
    IF S = {} THEN 0
    ELSE LET x == CHOOSE x \in S : TRUE IN f[x] + SumOver(f, S \ {x})

\* C1: a code is redeemed with success at most once.  An exchange that
\* presents a stored code with the verifier of its challenge is not refused,
\* the handler it suspends answers 200, and every exchange that presents the
\* code (with a verifier) after that one passed is answered invalid_grant.
C1_RedeemedOnce ==
    [][\A c \in CodeKeys :
         /\ okCount'[c] <= 1
         /\ ( /\ AnsweredAtOnce /\ IsCodeGrant(resp')
              /\ resp'.req.code = c /\ MapHas(authCodes, c)
              /\ resp'.req.code_verifier # Absent )
            => S256(resp'.req.code_verifier) # authCodes[c].codeChallenge
         /\ ( AnsweredOnResume /\ IsCodeGrant(resp') /\ resp'.req.code = c )
            => /\ resp'.status = 200
               /\ okCount[c] = 0 /\ okCount'[c] = 1
         /\ ( /\ AnsweredAtOnce /\ IsCodeGrant(resp')
              /\ resp'.req.code = c /\ resp'.req.code_verifier # Absent
              /\ (okCount[c] >= 1 \/ Redeeming(c)) )
            => InvalidGrant(resp')
      ]_vars

\* Witness of C1: code 1 was redeemed, and a later exchange presenting it
\* with the verifier of its challenge is answered invalid_grant.
C1_Witness ==
    /\ okCount[1] = 1
    /\ IsCodeGrant(resp) /\ resp.req.code = 1
    /\ S256(resp.req.code_verifier) = minted[1].codeChallenge
    /\ InvalidGrant(resp)

\* C2: of the exchanges that present one code while they overlap, at most one
\* passes; every request for the code answered while the winner is still
\* being signed is answered invalid_grant.
C2_OneWinner ==
    \A c \in CodeKeys :
        /\ Winners(c) <= 1
        /\ ( /\ Redeeming(c) /\ IsCodeGrant(resp) /\ resp.req.code = c
             /\ resp.req.code_verifier # Absent )
           => InvalidGrant(resp)

\* Witness of C2: while the winning redemption of code 1 is suspended, a
\* second request with the matching verifier has been answered invalid_grant.
C2_Witness ==
    /\ Redeeming(1)
    /\ IsCodeGrant(resp) /\ resp.req.code = 1
    /\ S256(resp.req.code_verifier) = minted[1].codeChallenge
    /\ InvalidGrant(resp)

\* C3: an exchange that presents a stored code with a verifier that does not
\* hash to its challenge is answered invalid_grant and removes the code; a
\* code that left the store never returns, and an exchange presenting a code
\* that is not stored is answered invalid_grant.
C3_MismatchConsumes ==
    [][\A c \in CodeKeys :
         /\ ( /\ AnsweredAtOnce /\ IsCodeGrant(resp')
              /\ resp'.req.code = c /\ MapHas(authCodes, c)
              /\ resp'.req.code_verifier # Absent
              /\ S256(resp'.req.code_verifier) # authCodes[c].codeChallenge )
            => InvalidGrant(resp') /\ ~MapHas(authCodes', c)
         /\ ( MapHas(minted, c) /\ ~MapHas(authCodes, c) )
            => ~MapHas(authCodes', c)
         /\ ( /\ AnsweredAtOnce /\ IsCodeGrant(resp')
              /\ resp'.req.code = c /\ resp'.req.code_verifier # Absent
              /\ ~MapHas(authCodes, c) )
            => InvalidGrant(resp')
         /\ ( MapHas(authCodes, c) /\ MapHas(authCodes', c)
              /\ IsCodeGrant(resp') /\ resp'.req.code = c )
            => resp'.req.code_verifier = Absent
      ]_vars

\* Witness of C3: before any sweep, code 1 was minted, was never redeemed, is
\* gone, and an exchange presenting it with the correct verifier is refused.
C3_Witness ==
    /\ nextSweep = SweepPeriod
    /\ MapHas(minted, 1) /\ ~MapHas(authCodes, 1)
    /\ okCount[1] = 0 /\ ~Redeeming(1)
    /\ IsCodeGrant(resp) /\ resp.req.code = 1
    /\ S256(resp.req.code_verifier) = minted[1].codeChallenge
    /\ InvalidGrant(resp)

\* C4: whenever the authorization_code grant is signing or has handed out a
\* token, the code is no longer stored and the presented verifier hashes to
\* the challenge the code was minted with; refresh records are created only
\* by such redemptions.
C4_TokenAfterPkceAndDelete ==
    /\ \A k \in InflightOf("token") :
          /\ ~MapHas(authCodes, k.req.code)
          /\ MapHas(minted, k.req.code)
          /\ S256(k.req.code_verifier) = minted[k.req.code].codeChallenge
    /\ ( IsCodeGrant(resp) /\ resp.status = 200 )
       => /\ ~MapHas(authCodes, resp.req.code)
          /\ MapHas(minted, resp.req.code)
          /\ S256(resp.req.code_verifier) = minted[resp.req.code].codeChallenge
          /\ MapHas(refreshTokens, resp.refresh_token)
    /\ nRefresh = SumOver(okCount, CodeKeys)

\* Witness of C4: the grant has just answered with a token.
C4_Witness == IsCodeGrant(resp) /\ resp.status = 200

\* C5: an entry older than its TTL is unusable although the sweeper has not
\* run since it expired: no callback finds an expired pending request and no
\* exchange passes with an expired code.
C5_ExpiredUnusable ==
    [][/\ \A s \in DOMAIN authRequests :
             Expired(authRequests[s]) => hitCount'[s] = hitCount[s]
       /\ \A c \in DOMAIN authCodes :
             Expired(authCodes[c]) => ~Redeeming(c)'
      ]_vars

\* C6: for each state at most one callback finds the pending request, at most
\* one code is minted, every other callback carrying the state is answered
\* invalid_state, and the pending entry is gone while the upstream exchange
\* of the winner is in flight.
C6_StateSingleUse ==
    [][\A s \in StateKeys :
         /\ hitCount'[s] <= 1
         /\ Cardinality({c \in DOMAIN minted' : minted'[c].state = s}) <= 1
         /\ ( /\ AnsweredAtOnce /\ resp'.op = "callback"
              /\ resp'.req.error = Absent /\ resp'.req.state = s
              /\ hitCount[s] >= 1 )
            => /\ resp'.status = 400 /\ resp'.error = "invalid_state"
               /\ hitCount'[s] = hitCount[s]
         /\ \A k \in BagToSet(inflight') :
               (k.op = "callback" /\ k.req.state = s)
               => ~MapHas(authRequests', s)
      ]_vars

\* Witness of C6: while the callback that found state 1 waits for the
\* upstream, a second callback carrying state 1 is answered invalid_state.
C6_Witness ==
    /\ hitCount[1] = 1
    /\ \E k \in InflightOf("callback") : k.req.state = 1
    /\ resp.op = "callback" /\ resp.req.state = 1
    /\ resp.req.error = Absent /\ resp.error = "invalid_state"

\* C7: a refresh exchange whose upstream call failed answers invalid_grant,
\* leaves its record deleted and is over (it does not go back to the
\* upstream); a deleted record never returns, and a refresh exchange that
\* does not find its record is answered invalid_grant.
C7_FailedRefreshRevokes ==
    [][\A r \in RefreshKeys :
         /\ ( /\ AnsweredOnResume /\ IsRefreshGrant(resp')
              /\ resp'.req.refresh_token = r /\ resp'.status # 200 )
            => /\ InvalidGrant(resp')
               /\ ~MapHas(refreshTokens', r)
               /\ BagCardinality(inflight') = BagCardinality(inflight) - 1
         /\ ( r <= nRefresh /\ ~MapHas(refreshTokens, r) )
            => ~MapHas(refreshTokens', r)
         /\ ( /\ AnsweredAtOnce /\ IsRefreshGrant(resp')
              /\ resp'.req.refresh_token = r
              /\ ~MapHas(refreshTokens, r) )
            => InvalidGrant(resp')
      ]_vars

\* Witness of C7: refresh token 1 was handed out, no sweep has run, and a
\* refresh exchange presenting it does not find it.
C7_Witness ==
    /\ nextSweep = SweepPeriod
    /\ nRefresh >= 1 /\ ~MapHas(refreshTokens, 1)
    /\ IsRefreshGrant(resp) /\ resp.req.refresh_token = 1
    /\ InvalidGrant(resp)
    /\ resp.description = "Refresh token expired or invalid"

\* C8: a refresh exchange that succeeds leaves the Refresh-Token Store as it
\* was and answers without a refresh_token; a stored refresh token is never
\* refused at lookup, keeps its fields, and leaves the store only by a sweep
\* or by a refresh exchange on it whose upstream call failed.
C8_NoRotation ==
    [][/\ ( AnsweredOnResume /\ IsRefreshGrant(resp') /\ resp'.status = 200 )
          => /\ refreshTokens' = refreshTokens
             /\ nRefresh' = nRefresh
             /\ "refresh_token" \notin DOMAIN resp'
       /\ \A r \in DOMAIN refreshTokens :
            /\ ( /\ AnsweredAtOnce /\ IsRefreshGrant(resp') )
               => resp'.req.refresh_token # r
            /\ MapHas(refreshTokens', r)
               => refreshTokens'[r] = refreshTokens[r]
            /\ ~MapHas(refreshTokens', r)
               => \/ nextSweep' # nextSweep
                  \/ /\ AnsweredOnResume /\ IsRefreshGrant(resp')
                     /\ resp'.req.refresh_token = r
                     /\ InvalidGrant(resp')
      ]_vars

\* Witness of C8: the second successful refresh exchange on the one refresh
\* token of the run has just been answered.
C8_Witness ==
    /\ renewals = 2 /\ nRefresh = 1
    /\ IsRefreshGrant(resp) /\ resp.status = 200
    /\ resp.req.refresh_token = 1 /\ MapHas(refreshTokens, 1)

\* C9: a token signed by this server at iat for this issuer is accepted at
\* every instant before iat + 3600 s, and at that instant and later it is
\* answered 401 invalid_token and the request is not passed on.
C9_AcceptedUntilExpiry ==
    ( /\ resp.op = "bearer" /\ resp.req.prefix = "Bearer "
      /\ resp.req.rest.sig = "jwtSecret" /\ resp.req.rest.iss = issuer )
    => IF now < resp.req.rest.iat + tokenExpirySeconds
       THEN resp.status = 200 /\ resp.next
       ELSE /\ resp.status = 401 /\ resp.error = "invalid_token"
            /\ ~resp.next

\* Witness of C9: a well-signed token is refused at the instant of its expiry.
C9_Witness ==
    /\ resp.op = "bearer" /\ resp.req.prefix = "Bearer "
    /\ resp.req.rest.sig = "jwtSecret" /\ resp.req.rest.iss = issuer
    /\ now = resp.req.rest.iat + tokenExpirySeconds
    /\ resp.status = 401 /\ resp.error = "invalid_token"

\* C10: two answers of the Bearer middleware to the same header at the same
\* instant agree in the decision and in the identity, whatever the stores
\* held at either answer.
C10_StoreIndependent ==
    ( /\ resp.op = "bearer" /\ lastBearer.op = "bearer"
      /\ lastBearer.req = resp.req /\ lastBearer.t = now )
    => /\ lastBearer.status = resp.status
       /\ lastBearer.error = resp.error
       /\ lastBearer.next = resp.next
       /\ lastBearer.sfAuth = resp.sfAuth

\* Witness of C10: a token of the tenant of refresh record 1 was accepted
\* while the record was stored and is accepted again, with the same identity,
\* after the record was revoked.
C10_Witness ==
    /\ resp.op = "bearer" /\ lastBearer.op = "bearer"
    /\ lastBearer.req = resp.req /\ lastBearer.t = now
    /\ resp.status = 200 /\ lastBearer.status = 200
    /\ 1 \in lastBearer.keys[3] /\ ~MapHas(refreshTokens, 1)
    /\ nRefresh = 1 /\ resp.sfAuth.orgId = "orgA"

\* C11: a request to /mcp is handed to its handler only when its
\* Authorization header is "Bearer " followed by an access token that the
\* Bearer middleware accepts (signed by this server, of this issuer, not
\* expired).
BearerAccepts(auth) ==
    /\ auth.prefix = "Bearer "
    /\ auth.rest \in SignedTokens
    /\ verifyJWT(auth.rest, now)

C11_ServedOnlyBehindBearer ==
    (resp.op = "mcp" /\ resp.next) => BearerAccepts(resp.req.authorization)

\* The challenge the authorize request behind code c asked for.
ChallengeBehind(c) == requested[minted[c].state].codeChallenge

\* C12: end to end.  A callback that succeeds for state s mints a code of
\* that state; an exchange that presents a stored, unexpired code with a
\* verifier whose S256 hash is the challenge of the authorize request behind
\* the code is not refused; and the exchange, once signed, answers 200 with
\* token_type Bearer, an access token that verifies and a refresh token that
\* is a key of the Refresh-Token Store.
C12_EndToEnd ==
    [][/\ ( /\ AnsweredOnResume /\ resp'.op = "callback"
            /\ resp'.status = 302 )
          => /\ MapHas(authCodes', resp'.location.code)
             /\ minted'[resp'.location.code].state = resp'.req.state
       /\ \A c \in DOMAIN authCodes :
            ( /\ ~Expired(authCodes[c])
              /\ AnsweredAtOnce /\ IsCodeGrant(resp')
              /\ resp'.req.code = c
              /\ resp'.req.code_verifier # Absent )
            => S256(resp'.req.code_verifier) # ChallengeBehind(c)
       /\ ( AnsweredOnResume /\ IsCodeGrant(resp') )
          => /\ resp'.status = 200
             /\ resp'.token_type = "Bearer"
             /\ verifyJWT(resp'.access_token, now)
             /\ MapHas(refreshTokens', resp'.refresh_token)
      ]_vars

\* Witness of C12: time has passed since the authorize request, and the
\* exchange of code 1 with the verifier of its challenge has just been
\* answered with a Bearer token and a stored refresh token.
C12_Witness ==
    /\ now > 0
    /\ IsCodeGrant(resp) /\ resp.status = 200 /\ resp.req.code = 1
    /\ S256(resp.req.code_verifier) = ChallengeBehind(1)
    /\ resp.token_type = "Bearer"
    /\ MapHas(refreshTokens, resp.refresh_token)

\* An authorize request that violates a precondition.
ViolatesPrecondition(q) ==
    \/ q.response_type # "code"
    \/ q.code_challenge = Absent
    \/ q.code_challenge_method # "S256"
    \/ q.redirect_uri = Absent

\* C13: an authorize request that violates a precondition is answered 400,
\* with unsupported_response_type when response_type is not "code" and with
\* invalid_request otherwise, and the three stores are as they were.
C13_InvalidAuthorizeRejected ==
    [][( resp'.op = "authorize" /\ ViolatesPrecondition(resp'.req) )
       => /\ resp'.status = 400
          /\ resp'.error = IF resp'.req.response_type # "code"
                           THEN "unsupported_response_type"
                           ELSE "invalid_request"
          /\ authRequests' = authRequests
          /\ authCodes' = authCodes
          /\ refreshTokens' = refreshTokens
      ]_vars

\* Witness of C13: with a pending request and a code stored, an authorize
\* request without redirect_uri has been answered invalid_request.
C13_Witness ==
    /\ authRequests # EmptyMap /\ authCodes # EmptyMap
    /\ resp.op = "authorize" /\ resp.req.redirect_uri = Absent
    /\ resp.status = 400 /\ resp.error = "invalid_request"

\* C14: an authorize request answered with the redirect to the upstream has
\* inserted one pending request, made of the request's parameters, under a
\* key that was not in the store; the entries that were there, the
\* Issued-Code Store and the Refresh-Token Store are as they were; and the
\* state parameter of the redirect is the key of the new entry.
C14_AuthorizeInsertsOne ==
    [][( resp'.op = "authorize" /\ resp'.status = 302 )
       => /\ \E k \in DOMAIN authRequests' \ DOMAIN authRequests :
               /\ DOMAIN authRequests' = DOMAIN authRequests \cup {k}
               /\ resp'.location.state = k
               /\ authRequests'[k] =
                     [codeChallenge |-> resp'.req.code_challenge,
                      redirectUri |-> resp'.req.redirect_uri,
                      clientState |-> resp'.req.state,
                      createdAt |-> now]
          /\ \A x \in DOMAIN authRequests :
               authRequests'[x] = authRequests[x]
          /\ authCodes' = authCodes
          /\ refreshTokens' = refreshTokens
      ]_vars

\* Witness of C14: a second authorize request, carrying a client state, was
\* redirected while the pending request of the first is still stored.
C14_Witness ==
    /\ resp.op = "authorize" /\ resp.status = 302
    /\ resp.req.state = "cs1"
    /\ resp.location.state = 2
    /\ DOMAIN authRequests = {1, 2}

\* C15: a callback that carries an error parameter is answered at once with
\* a 400 whose error is that parameter, starts no upstream call, and leaves
\* the three stores as they were, so a pending request under its state is
\* still stored.
C15_ErrorCallbackTouchesNothing ==
    [][( resp'.op = "callback" /\ resp'.req.error # Absent )
       => /\ resp'.status = 400 /\ resp'.error = resp'.req.error
          /\ inflight' = inflight
          /\ authRequests' = authRequests
          /\ authCodes' = authCodes
          /\ refreshTokens' = refreshTokens
      ]_vars

\* Witness of C15: a callback carrying an error and state 1 was answered and
\* the pending request of state 1 is still stored.
C15_Witness ==
    /\ resp.op = "callback" /\ resp.req.error = "access_denied"
    /\ resp.req.state = 1 /\ resp.status = 400
    /\ MapHas(authRequests, 1)

\* The answer of a callback whose upstream exchange failed.
UpstreamExchangeFailed(r) ==
    /\ r.op = "callback"
    /\ "description" \in DOMAIN r
    /\ r.description \in ExchangeFailures

\* C16: a callback whose upstream exchange failed answers 500 server_error,
\* inserts no code and leaves its pending request deleted; a state that was
\* consumed never returns to the Pending-Request Store, and a callback
\* carrying a state that is not stored is answered invalid_state.
C16_FailedExchangeConsumes ==
    [][\A s \in StateKeys :
         /\ ( /\ AnsweredOnResume /\ UpstreamExchangeFailed(resp')
              /\ resp'.req.state = s )
            => /\ resp'.status = 500 /\ resp'.error = "server_error"
               /\ authCodes' = authCodes /\ nCode' = nCode
               /\ minted' = minted
               /\ ~MapHas(authRequests', s)
         /\ ( s <= nState /\ ~MapHas(authRequests, s) )
            => ~MapHas(authRequests', s)
         /\ ( /\ AnsweredAtOnce /\ resp'.op = "callback"
              /\ resp'.req.error = Absent /\ resp'.req.state = s
              /\ ~MapHas(authRequests, s) )
            => resp'.status = 400 /\ resp'.error = "invalid_state"
      ]_vars

\* Witness of C16: the only callback that found state 1 has failed at the
\* upstream (no code was minted, nothing is in flight), and the repeat of
\* the callback with state 1 is answered invalid_state.
C16_Witness ==
    /\ hitCount[1] = 1 /\ nCode = 0 /\ inflight = EmptyBag
    /\ resp.op = "callback" /\ resp.req.state = 1
    /\ resp.req.error = Absent
    /\ resp.status = 400 /\ resp.error = "invalid_state"

\* C17: every stored code carries the challenge of the authorize request
\* that created the pending request its callback presented, and a redemption
\* that passed the PKCE check, or was answered with success, used a verifier
\* whose S256 hash is that challenge.
C17_CodeBoundToOwnChallenge ==
    /\ \A c \in DOMAIN authCodes :
          authCodes[c].codeChallenge = ChallengeBehind(c)
    /\ \A k \in InflightOf("token") :
          S256(k.req.code_verifier) = ChallengeBehind(k.req.code)
    /\ ( IsCodeGrant(resp) /\ resp.status = 200 )
       => S256(resp.req.code_verifier) = ChallengeBehind(resp.req.code)

\* Witness of C17: two flows with different challenges whose callbacks
\* completed in the other order than their authorize requests; both codes are
\* stored.
C17_Witness ==
    /\ DOMAIN authCodes = {1, 2}
    /\ minted[1].state = 2 /\ minted[2].state = 1
    /\ requested[1].codeChallenge # requested[2].codeChallenge

\* C18: a callback answered with the redirect to the client redirects to the
\* redirect_uri that the authorize request of its state asked for, with the
\* code this callback has just minted, with the state parameter of that
\* authorize request as state parameter (none when the client gave none),
\* and with no other parameter.
C18_RedirectToClient ==
    [][( AnsweredOnResume /\ resp'.op = "callback" /\ resp'.status = 302 )
       => /\ nCode' = nCode + 1
          /\ MapHas(authCodes', nCode') /\ ~MapHas(authCodes, nCode')
          /\ resp'.location =
                [url |-> requested[resp'.req.state].redirectUri,
                 code |-> nCode',
                 state |-> requested[resp'.req.state].clientState]
      ]_vars

\* The callback of state s waits for the upstream.
CallbackPending(s) == \E k \in InflightOf("callback") : k.req.state = s
\* A refresh exchange of refresh token r waits for the upstream.
RefreshPending(r) == \E k \in InflightOf("refresh") : k.req.refresh_token = r
\* A refresh exchange of r that had called the upstream has answered.
RefreshAnswered(r) ==
    /\ IsRefreshGrant(resp) /\ resp.req.refresh_token = r
    /\ \/ resp.status = 200
       \/ /\ "description" \in DOMAIN resp
          /\ resp.description = "SF refresh failed"

\* C19: a callback that started its upstream exchange, and a refresh
\* exchange that started its upstream refresh, eventually answer their
\* caller, whatever the upstream does.
C19_UpstreamCallAnswered ==
    /\ \A s \in StateKeys : CallbackPending(s) ~> ~CallbackPending(s)
    /\ \A r \in RefreshKeys : RefreshPending(r) ~> RefreshAnswered(r)

\* The age of a stored entry at the instant t.
Age(entry, t) == t - entry.createdAt

\* C20: when a run of the sweeper ends, no pending request and no code is
\* older than 10 minutes and no refresh record is older than 30 days.
C20_NothingStaleAfterSweep ==
    [][( nextSweep' # nextSweep )
       => /\ \A k \in DOMAIN authRequests' :
               Age(authRequests'[k], now') <= 600
          /\ \A k \in DOMAIN authCodes' :
               Age(authCodes'[k], now') <= 600
          /\ \A k \in DOMAIN refreshTokens' :
               Age(refreshTokens'[k], now') <= 30 * 86400
      ]_vars

\* Witness of C20: a sweep has just run more than 30 days after the one
\* refresh record of the run was made, and the record is gone (in SpecSweep
\* only the sweeper deletes refresh records).
C20_Witness ==
    /\ nRefresh = 1 /\ refreshTokens = EmptyMap
    /\ now > refreshExpirySeconds
    /\ nextSweep = now + SweepPeriod

\* A suspended handler has ended in this step.
HandlerEnded == BagCardinality(inflight') < BagCardinality(inflight)

\* C21: a handler that ends has sent a response, and a failure caused inside
\* the server (the signature fails in either grant, the upstream's 2xx answer
\* to a refresh cannot be read, a redirect URL cannot be built) is answered
\* with status 500.
C21_ServerFailuresAnswered500 ==
    [][/\ HandlerEnded => resp'.op # "none"
       /\ ( \E c \in InflightOf("token") : tokenSignFailed(c) )
          => resp'.status = 500
       /\ ( \E c \in InflightOf("refresh") : \E cause \in RefreshLocalCauses :
               refreshLocalFailure(c, cause) )
          => resp'.status = 500
       /\ ( /\ resp'.op = "authorize" /\ ~ViolatesPrecondition(resp'.req)
            /\ resp'.req.login_url # Absent /\ ~IsUrl(resp'.req.login_url) )
          => resp'.status = 500
       /\ ( /\ HandlerEnded /\ resp'.op = "callback"
            /\ resp'.status # 302 )
          => resp'.status = 500
      ]_vars

\* C22: the answer of a callback whose upstream exchange failed does not
\* depend on the text of the failure: a step that ends such a callback for
\* one text is also the step that ends it for any other text.
C22_FailureTextNotDisclosed ==
    [][\A c \in InflightOf("callback") :
         \A e1 \in ExchangeFailures : \A e2 \in ExchangeFailures :
            callbackUpstreamFailed(c, e1) => callbackUpstreamFailed(c, e2)
      ]_vars

\* The error codes of the protocol.
ErrorCodes ==
    {"invalid_request", "invalid_grant", "invalid_state",
     "unsupported_response_type", "unsupported_grant_type", "server_error"}

\* C23: the error value of every error response that the authorize, callback
\* and token handlers send is one of the error codes of the protocol (the
\* answer the web framework gives when handleAuthorize throws is not counted).
C23_ErrorCodesClosed ==
    ( /\ resp.op \in {"authorize", "callback", "token"}
      /\ resp.status >= 400
      /\ resp.error # "Internal Server Error" )
    => resp.error \in ErrorCodes

\* C24: an authorization_code exchange without code or without code_verifier
\* is answered 400 invalid_request and leaves the three stores as they were;
\* and an exchange that presents a stored code with the verifier of the
\* code's challenge is not refused.
C24_MissingParameterConsumesNothing ==
    [][/\ ( /\ IsCodeGrant(resp')
            /\ \/ resp'.req.code = NoKey
               \/ resp'.req.code_verifier = Absent )
          => /\ resp'.status = 400 /\ resp'.error = "invalid_request"
             /\ inflight' = inflight
             /\ authRequests' = authRequests
             /\ authCodes' = authCodes
             /\ refreshTokens' = refreshTokens
       /\ \A c \in DOMAIN authCodes :
            ~( /\ AnsweredAtOnce /\ IsCodeGrant(resp')
               /\ resp'.req.code = c
               /\ resp'.req.code_verifier # Absent
               /\ S256(resp'.req.code_verifier) = authCodes[c].codeChallenge )
      ]_vars

\* Witness of C24: stored code 1 was presented without a verifier, the
\* exchange was answered invalid_request, and code 1 is still stored.
C24_Witness ==
    /\ IsCodeGrant(resp) /\ resp.req.code = 1
    /\ resp.req.code_verifier = Absent
    /\ resp.error = "invalid_request"
    /\ MapHas(authCodes, 1)

\* C25: an authorization_code exchange that carries a code and a verifier,
\* where the code is not a key of the Issued-Code Store, is answered 400
\* invalid_grant at once, carries no token, and leaves the three stores as
\* they were.
C25_UnknownCodeRefused ==
    [][\A b \in TokenBodies :
         ( /\ b.grant_type = "authorization_code"
           /\ b.code # NoKey /\ b.code_verifier # Absent
           /\ ~MapHas(authCodes, b.code)
           /\ handleToken(b) )
         => /\ resp' = Json("token", 400, "invalid_grant", b)
                       @@ [description |-> "Code expired or invalid"]
            /\ inflight' = inflight
            /\ nRefresh' = nRefresh
            /\ authRequests' = authRequests
            /\ authCodes' = authCodes
            /\ refreshTokens' = refreshTokens
      ]_vars

\* Witness of C25: after a sweep has run, code 1, which was minted and never
\* redeemed with success, is presented with a verifier, is not stored, and
\* the exchange is answered invalid_grant.
C25_Witness ==
    /\ nextSweep > SweepPeriod
    /\ MapHas(minted, 1) /\ okCount[1] = 0 /\ ~MapHas(authCodes, 1)
    /\ IsCodeGrant(resp) /\ resp.req.code = 1
    /\ resp.req.code_verifier # Absent
    /\ InvalidGrant(resp)

\* C26: a token request whose grant_type is neither authorization_code nor
\* refresh_token is answered 400 unsupported_grant_type at once, without a
\* token, and leaves the three stores as they were, whatever code, verifier
\* and refresh token it carries.
C26_UnsupportedGrantTouchesNothing ==
    [][\A b \in TokenBodies :
         ( /\ b.grant_type \notin {"authorization_code", "refresh_token"}
           /\ handleToken(b) )
         => /\ resp' = Json("token", 400, "unsupported_grant_type", b)
            /\ inflight' = inflight
            /\ nRefresh' = nRefresh
            /\ authRequests' = authRequests
            /\ authCodes' = authCodes
            /\ refreshTokens' = refreshTokens
      ]_vars

\* Witness of C26: a request without grant_type that carried stored code 1
\* and its verifier was answered unsupported_grant_type; code 1 is stored.
C26_Witness ==
    /\ resp.op = "token" /\ resp.req.grant_type = Absent
    /\ resp.error = "unsupported_grant_type"
    /\ MapHas(authCodes, resp.req.code)
    /\ S256(resp.req.code_verifier) = authCodes[resp.req.code].codeChallenge

\* Token handlers suspended by this step.
NewlySuspended ==
    {k \in InflightOf("token")' :
        CopiesIn(k, inflight') > CopiesIn(k, inflight)}

\* C27: a handler of the authorization_code grant that is suspended for the
\* signature carries the stored entry of the code it presented; when it
\* answers with success, one refresh record has been inserted under a key
\* that was never used, the other records are as they were, and the record
\* and the access token carry the tenant, the instance and the upstream
\* tokens of that entry; an exchange that fails inserts no record; and no
\* more refresh records were ever made than codes were redeemed with success.
C27_OneRecordPerRedemption ==
    [][/\ \A k \in NewlySuspended :
            MapHas(authCodes, k.req.code) /\ k.authCode = authCodes[k.req.code]
       /\ ( AnsweredOnResume /\ IsCodeGrant(resp') /\ resp'.status = 200 )
          => \E k \in InflightOf("token") :
                LET r == resp'.refresh_token
                IN /\ inflight' = Resume(k)
                   /\ resp'.req = k.req
                   /\ r = nRefresh + 1 /\ nRefresh' = r
                   /\ DOMAIN refreshTokens' = DOMAIN refreshTokens \cup {r}
                   /\ \A x \in DOMAIN refreshTokens :
                         refreshTokens'[x] = refreshTokens[x]
                   /\ refreshTokens'[r].orgId = k.authCode.orgId
                   /\ refreshTokens'[r].sfInstanceUrl
                         = k.authCode.sfInstanceUrl
                   /\ refreshTokens'[r].sfRefreshToken
                         = k.authCode.sfRefreshToken
                   /\ resp'.access_token.sub = k.authCode.orgId
                   /\ resp'.access_token.instance_url
                         = k.authCode.sfInstanceUrl
                   /\ resp'.access_token.sf_token = k.authCode.sfAccessToken
       /\ ( IsCodeGrant(resp') /\ resp'.status # 200 )
          => refreshTokens' = refreshTokens /\ nRefresh' = nRefresh
       /\ nRefresh' = SumOver(okCount', CodeKeys)
      ]_vars

\* Witness of C27: two redemptions of codes of different tenants were being
\* signed together; the one of the code without a tenant id has answered,
\* the one of tenant "orgA" is still suspended.
C27_Witness ==
    /\ IsCodeGrant(resp) /\ resp.status = 200
    /\ resp.access_token.sub = "unknown"
    /\ refreshTokens[resp.refresh_token].orgId = "unknown"
    /\ \E k \in InflightOf("token") : k.authCode.orgId = "orgA"

Touched ==
    {k \in BagToSet(inflight) \cup BagToSet(inflight') :
        CopiesIn(k, inflight) # CopiesIn(k, inflight')}
\* The keys of the request this step has handled.
StepStates ==
    {k.req.state : k \in {x \in Touched \cup {resp'} : x.op = "callback"}}
StepCodes ==
    {k.req.code : k \in {x \in Touched \cup {resp'} :
                            x.op = "token" /\ IsCodeGrant(x)}}
StepRefreshTokens ==
    {k.req.refresh_token :
        k \in {x \in Touched : x.op = "refresh"}
              \cup {x \in {resp'} : IsRefreshGrant(x)}}

\* C29: a handler step never alters a stored entry; it removes a pending
\* request, a code or a refresh record only when the request it handles is
\* keyed by that state, code or refresh token; and what it inserts is stored
\* under a key that was never used before.
C29_FlowsDoNotContend ==
    [][/\ \A s \in DOMAIN authRequests :
            IF MapHas(authRequests', s)
            THEN authRequests'[s] = authRequests[s]
            ELSE s \in StepStates
       /\ \A c \in DOMAIN authCodes :
            IF MapHas(authCodes', c)
            THEN authCodes'[c] = authCodes[c]
            ELSE c \in StepCodes
       /\ \A r \in DOMAIN refreshTokens :
            IF MapHas(refreshTokens', r)
            THEN refreshTokens'[r] = refreshTokens[r]
            ELSE r \in StepRefreshTokens
       /\ DOMAIN authRequests' \ DOMAIN authRequests \subseteq {nState + 1}
       /\ DOMAIN authCodes' \ DOMAIN authCodes \subseteq {nCode + 1}
       /\ DOMAIN refreshTokens' \ DOMAIN refreshTokens \subseteq {nRefresh + 1}
      ]_vars

\* Witness of C29: with the codes of two flows stored, code 1 was presented
\* with a wrong verifier and is consumed; code 2 is still stored.
C29_Witness ==
    /\ nCode = 2 /\ DOMAIN authCodes = {2}
    /\ IsCodeGrant(resp) /\ resp.req.code = 1
    /\ InvalidGrant(resp)
    /\ resp.description = "PKCE verification failed"

\* C30: a callback that ends with an error response instead of the redirect
\* to the client has minted no code: the Issued-Code Store is as it was
\* before the step that answered.
C30_FailedCallbackLeavesNoCode ==
    [][( HandlerEnded /\ resp'.op = "callback" /\ resp'.status # 302 )
       => authCodes' = authCodes /\ nCode' = nCode
      ]_vars

\* The header has the form "Bearer <token>" and the token's signature, issuer
\* and expiry verify at the instant now.
HeaderVerifies(auth) ==
    /\ auth.prefix = "Bearer "
    /\ auth.rest.sig = "jwtSecret"
    /\ auth.rest.iss = issuer
    /\ now < auth.rest.exp

\* C31: the Bearer middleware calls next() exactly when the Authorization
\* header is "Bearer " followed by a token whose signature, issuer and expiry
\* verify, and then attaches the identity of the token; a header that is
\* absent or of another form is answered 401 unauthorized, a token that does
\* not verify 401 invalid_token, and in both cases next() is not called and
\* no identity is attached.
C31_NextIffTokenVerifies ==
    resp.op = "bearer" =>
       LET auth == resp.req
       IN /\ resp.next <=> HeaderVerifies(auth)
          /\ resp.next =>
                /\ resp.status = 200
                /\ resp.sfAuth = [orgId |-> auth.rest.sub,
                                  instanceUrl |-> auth.rest.instance_url,
                                  sfToken |-> auth.rest.sf_token,
                                  scope |-> auth.rest.scope]
          /\ auth.prefix # "Bearer " =>
                resp.status = 401 /\ resp.error = "unauthorized"
          /\ (auth.prefix = "Bearer " /\ ~HeaderVerifies(auth)) =>
                resp.status = 401 /\ resp.error = "invalid_token"
          /\ ~resp.next => resp.sfAuth = Absent

\* Witness of C31: a token signed with another key is refused as
\* invalid_token before its expiry, while no request carried an identity.
C31_Witness ==
    /\ resp.op = "bearer" /\ resp.req.prefix = "Bearer "
    /\ resp.req.rest.sig = "otherSecret"
    /\ now < resp.req.rest.exp
    /\ resp.status = 401 /\ resp.error = "invalid_token"
    /\ ~resp.next /\ resp.sfAuth = Absent

\* C32: a refresh exchange is answered with an access token only while the
\* record of the presented refresh token is stored: once the record was
\* deleted, an exchange that read it earlier does not end in success.
C32_NoTokenFromDeletedRecord ==
    [][( IsRefreshGrant(resp') /\ resp'.status = 200 )
       => MapHas(refreshTokens, resp'.req.refresh_token)
      ]_vars

\* C33: the access token of a successful refresh exchange has the subject of
\* the access token that was handed out together with the presented refresh
\* token, whatever the upstream answered to the refresh; the subject and the
\* tenant of a stored refresh record never change.
C33_TenantFixedAfterExchange ==
    [][ /\ ( IsRefreshGrant(resp') /\ resp'.status = 200 )
           => /\ MapHas(issuedSub, resp'.req.refresh_token)
              /\ resp'.access_token.sub = issuedSub[resp'.req.refresh_token]
              /\ resp'.access_token.scope = TokenScope
        /\ \A k \in DOMAIN issuedSub : issuedSub'[k] = issuedSub[k]
        /\ \A k \in DOMAIN refreshTokens' :
              /\ refreshTokens'[k].orgId = issuedSub'[k]
              /\ k \in DOMAIN refreshTokens
                    => refreshTokens'[k].orgId = refreshTokens[k].orgId
      ]_vars

\* Witness of C33: a refresh exchange of the tenant orgA was answered with a
\* token of that tenant whose instance is the one the upstream returned on
\* the refresh, not the one of the stored record.
C33_Witness ==
    /\ IsRefreshGrant(resp) /\ resp.status = 200
    /\ issuedSub[resp.req.refresh_token] = "orgA"
    /\ resp.access_token.sub = "orgA"
    /\ resp.access_token.instance_url = "instC"
    /\ resp.access_token.sf_token = "sfA4"

\* C34: every record of the Refresh-Token Store holds an upstream refresh
\* token, so every refresh token handed to a client can be used for a
\* renewal at the upstream.
C34_RecordsHoldUpstreamToken ==
    \A k \in DOMAIN refreshTokens : refreshTokens[k].sfRefreshToken # Absent

\* C35: a record leaves the Refresh-Token Store only when the sweeper finds
\* it older than 30 days, or when the upstream call of a refresh exchange
\* that presented its token failed; a failure of this server after the
\* upstream answered the refresh with success removes no record.
C35_RecordLeavesBySweepOrUpstreamFailure ==
    [][ \A k \in DOMAIN refreshTokens \ DOMAIN refreshTokens' :
           \/ /\ Sweep
              /\ now - refreshTokens[k].createdAt > refreshExpirySeconds
           \/ \E c \in InflightOf("refresh") :
                 c.req.refresh_token = k /\ refreshUpstreamFailed(c)
      ]_vars

\* The sweep of one store kept every entry of age at most ttl as it was, and
\* inserted and modified nothing.
SweptOnlyExpired(before, after, ttl) ==
    /\ \A k \in DOMAIN before :
          now - before[k].createdAt <= ttl
             => k \in DOMAIN after /\ after[k] = before[k]
    /\ DOMAIN after \subseteq DOMAIN before
    /\ \A k \in DOMAIN after : after[k] = before[k]

\* C36: a run of the sweeper keeps, with unchanged fields, every entry whose
\* age is at most the TTL of its store (600 s for pending requests and
\* codes, 30 days for refresh records), the age equal to the TTL included,
\* and inserts or modifies no entry.
C36_SweepRemovesOnlyExpired ==
    [][ nextSweep' # nextSweep =>
           /\ SweptOnlyExpired(authRequests, authRequests', RequestTTL)
           /\ SweptOnlyExpired(authCodes, authCodes', RequestTTL)
           /\ SweptOnlyExpired(refreshTokens, refreshTokens',
                               refreshExpirySeconds)
      ]_vars

\* Witness of C36: a sweep has just run at the instant a refresh record is
\* exactly 30 days old, and the record is still stored.
C36_Witness ==
    /\ nextSweep = now + SweepPeriod
    /\ MapHas(refreshTokens, 1)
    /\ now - refreshTokens[1].createdAt = refreshExpirySeconds

\* C37: every pending request and every code leaves its store (swept, or
\* consumed by a callback or a redemption) less than TTL plus one sweep period
\* (20 minutes) after its creation, so no callback and no redemption finds an
\* entry that is 20 minutes old or older.
C37_GoneWithinTwoPeriods ==
    [][ /\ \A k \in DOMAIN authRequests \ DOMAIN authRequests' :
              now - authRequests[k].createdAt < RequestTTL + SweepPeriod
        /\ \A k \in DOMAIN authCodes \ DOMAIN authCodes' :
              now - authCodes[k].createdAt < RequestTTL + SweepPeriod
      ]_vars

\* C38: an authorize request that is not answered with the 302 redirect to
\* the upstream leaves the Pending-Request Store as it was.
C38_FailedAuthorizeStoresNothing ==
    [][( resp'.op = "authorize" /\ resp'.status # 302 )
       => authRequests' = authRequests
      ]_vars

\* C39: a POST /mcp that reaches handlePost is given to an existing transport
\* only when its mcp-session-id names a registered session, makes a new
\* session only when it carries no mcp-session-id and its body is an
\* initialize request, and is otherwise answered 400 and registers nothing.
C39_PostRouting ==
    [][( resp'.op = "mcp" /\ resp'.req.method = "POST" /\ resp'.next )
       => LET req == resp'.req
          IN IF req.sessionId # NoKey /\ MapHas(transports, req.sessionId)
             THEN /\ resp'.transport = req.sessionId
                  /\ transports' = transports
             ELSE IF req.sessionId = NoKey /\ req.isInitialize
             THEN /\ ~MapHas(transports, resp'.transport)
                  /\ DOMAIN transports' =
                        DOMAIN transports \cup {resp'.transport}
             ELSE /\ resp'.status = 400
                  /\ resp'.transport = NoKey
                  /\ transports' = transports
      ]_vars

\* The ids of the sessions whose transport has closed: generated, and no
\* longer registered.
ClosedSessions == (1..nSession) \ DOMAIN transports

\* C40: an id enters the registry only when an initialize request without a
\* session id makes the transport that generates it, and it leaves the
\* registry when the transport closes; the id of a closed transport is never
\* registered again, every GET, POST or DELETE that names it and reaches the
\* handler is answered 400, and every registered id maps to the transport
\* that generated it.
C40_RegistryLifecycle ==
    [][ /\ \A k \in DOMAIN transports' \ DOMAIN transports :
              /\ resp'.op = "mcp" /\ resp'.req.method = "POST"
              /\ resp'.req.sessionId = NoKey /\ resp'.req.isInitialize
              /\ resp'.transport = k
              /\ k \notin 1..nSession
        /\ \A k \in DOMAIN transports \ DOMAIN transports' :
              resp'.op = "none"
        /\ \A k \in ClosedSessions : ~MapHas(transports', k)
        /\ ( resp'.op = "mcp" /\ resp'.next
             /\ resp'.req.sessionId \in ClosedSessions )
           => resp'.status = 400 /\ resp'.transport = NoKey
        /\ \A k \in DOMAIN transports' : transports'[k].sessionId = k
      ]_vars

\* Witness of C40: session 1 was initialized and its transport has closed
\* while session 2 is registered; a DELETE naming session 1 is answered 400.
C40_Witness ==
    /\ nSession = 2 /\ DOMAIN transports = {2}
    /\ resp.op = "mcp" /\ resp.req.method = "DELETE"
    /\ resp.req.sessionId = 1
    /\ resp.next /\ resp.status = 400

====
